---- MODULE Spec2Model ----
(***************************************************************************)
(* Model of tmh/transcribe.py: the TranscribeModel orchestrator (model     *)
(* resolution, the four-way dispatch of transcribe and transcribe_bytes,   *)
(* the except clause of transcribe), the plain streaming pathway           *)
(* transcribe_from_audio_path, the plain byte pathway transcribe_bytes,    *)
(* classify_emotion, and the token-duration statistics.                    *)
(*                                                                         *)
(* The third-party collaborators (ensure_wav, get_model, from_pretrained,  *)
(* librosa, soundfile, the model and the processor, the VAD and LM         *)
(* pathways) are not in the repository: each call of one is a              *)
(* nondeterministic choice between its returning and its raising.          *)
(***************************************************************************)
EXTENDS Integers, Sequences, FiniteSets, TLC

\* ------------------------------------------------------------- bounds
\* Longest audio file, in seconds.
MaxDuration == 61
\* Longest time_stamps[0] list.
MaxTokens == 3
\* Longest decoded signal, in samples, and the most channels it has.
MaxFrames == 3
MaxChannels == 3

\* -------------------------------------------------- program constants
\* librosa.stream(block_length=30, frame_length=sample_rate,
\* hop_length=sample_rate): a block is 30 frames of one second each.
block_length == 30
downsample == 320
sample_rate == 16000

VARIABLES
    pc,             \* "new", "ready", "init_failed", "streaming", "ended"
    self,           \* the TranscribeModel instance's fields
    model_id_arg,   \* the model_id argument __init__ was given
    loads,          \* number of from_pretrained calls made so far
    entry,          \* the function the caller called
    output_format,  \* the output_format argument of the call
    invoked,        \* the inference pathways the call invoked, in order
    passed_format,  \* the output_format handed to the pathway, or "not_passed"
    duration,       \* length of the audio file, in seconds
    converted,      \* ensure_wav's second result
    temp_exists,    \* the temporary converted file is on disk
    removed,        \* number of os.remove calls made by the call
    blocks,         \* the blocks librosa.stream yields (their lengths in seconds)
    blockIdx,       \* number of blocks consumed so far
    decoded,        \* what processor.decode returned for each block, in order
    transcript,     \* the local variable transcript
    inferCalls,     \* number of model(...) calls made by the call
    outcome,        \* "none", "returned", "raised"
    result,         \* what the call returned
    exc,            \* the exception the caller observes
    time_stamps,    \* argument of get_speech_rate_variability (time_stamps[0])
    type,           \* its type argument: "char" or "word"
    stats,          \* its result: averages, stds, variances
    speech,         \* a decoded block or byte buffer
    site,           \* where it was decoded: "stream" or "bytes"
    mono            \* the signal handed to the processor

vars == <<pc, self, model_id_arg, loads, entry, output_format, invoked, passed_format,
          duration, converted, temp_exists, removed, blocks, blockIdx, decoded,
          transcript, inferCalls, outcome, result, exc,
          time_stamps, type, stats, speech, site, mono>>

orchVars == <<pc, self, model_id_arg, loads, entry, output_format, invoked, passed_format,
              duration, converted, temp_exists, removed, blocks, blockIdx, decoded,
              transcript, inferCalls, outcome, result, exc>>
statVars == <<time_stamps, type, stats>>
monoVars == <<speech, site, mono>>

\* ------------------------------------------------------------- inputs
Languages == {"Swedish", "English", "Klingon"}
\* model_id=None (the default), the empty string, a HuggingFace model name
ModelIds == {"None", "", "KBLab/wav2vec2-large-voxrex-swedish"}
Formats == {"json", "str", "str_dots"}
\* what processor.decode may return for one block
Transcriptions == {<<>>, <<"H", "e", "J">>, <<"d", "X">>}

NoSelf == [use_vad |-> FALSE, use_lm |-> FALSE, language |-> "none",
           model_id |-> "None", processor |-> "none"]
NoExc == [type |-> "none", cause |-> "none", stage |-> "none"]
NoResult == [kind |-> "none", text |-> <<>>]

\* An exception raised at `stage` of a call.
Raised(t, stage) == [type |-> t, cause |-> "none", stage |-> stage]

\* Python truthiness of the model_id argument.
Truthy(model_id) == model_id # "None" /\ model_id # ""

\* --------------------------------------------------------- str.lower
LowerChar(c) ==
    CASE c = "H" -> "h"
      [] c = "J" -> "j"
      [] c = "X" -> "x"
      [] OTHER -> c

RECURSIVE Lower(_)
Lower(s) == IF s = <<>> THEN <<>> ELSE <<LowerChar(Head(s))>> \o Lower(Tail(s))

\* ------------------------------------------- TranscribeModel.__init__
\* tmh.language_files.get_model, when it returns: some checkpoint of the language.
get_model(language) ==
    CASE language = "Swedish" -> "checkpoint-sv"
      [] language = "English" -> "checkpoint-en"
      [] OTHER -> "checkpoint-other"

\* get_model_id: gm_ok is whether the external get_model(language) returns.
get_model_id_any_language(use_lm, language, gm_ok) ==
    IF use_lm
    THEN [ok |-> TRUE, id |-> "viktor-enzell/wav2vec2-large-voxrex-swedish-4gram",
          exc |-> "none"]
    ELSE IF gm_ok
         THEN [ok |-> TRUE, id |-> get_model(language), exc |-> "none"]
         ELSE [ok |-> FALSE, id |-> "None", exc |-> "get_model error"]

get_model_id(use_lm, language, gm_ok) ==
    IF use_lm
    THEN IF language = "Swedish"
         THEN [ok |-> TRUE, id |-> "viktor-enzell/wav2vec2-large-voxrex-swedish-4gram",
               exc |-> "none"]
         ELSE [ok |-> FALSE, id |-> "None", exc |-> "ValueError"]
    ELSE IF gm_ok
         THEN [ok |-> TRUE, id |-> get_model(language), exc |-> "none"]
         ELSE [ok |-> FALSE, id |-> "None", exc |-> "get_model error"]

\* self.model_id = model_id if model_id else self.get_model_id()
resolve_model_id(model_id, use_lm, language, gm_ok) ==
    IF Truthy(model_id)
    THEN [ok |-> TRUE, id |-> model_id, exc |-> "none"]
    ELSE get_model_id(use_lm, language, gm_ok)

\* initialize: the processor class each branch loads.
initialize(use_vad, use_lm) ==
    IF use_vad /\ use_lm THEN "Wav2Vec2ProcessorWithLM"
    ELSE IF use_vad THEN "Wav2Vec2Processor"
    ELSE IF use_lm THEN "Wav2Vec2ProcessorWithLM"
    ELSE "Wav2Vec2Processor"

\* load is the outcome of the two from_pretrained calls of initialize.
Construct(use_vad, use_lm, language, model_id, gm_ok, load) ==
    /\ pc = "new"
    /\ model_id_arg' = model_id
    /\ LET r == resolve_model_id(model_id, use_lm, language, gm_ok)
           fields == [use_vad |-> use_vad, use_lm |-> use_lm, language |-> language,
                      model_id |-> r.id, processor |-> "none"]
       IN IF ~r.ok
          THEN /\ pc' = "init_failed"
               /\ self' = fields
               /\ loads' = loads
               /\ exc' = Raised(r.exc, "resolution")
          ELSE IF load = "ok"
          THEN /\ pc' = "ready"
               /\ self' = [fields EXCEPT !.processor = initialize(use_vad, use_lm)]
               /\ loads' = loads + 2
               /\ exc' = exc
          ELSE /\ pc' = "init_failed"
               /\ self' = fields
               /\ loads' = loads + (IF load = "processor_fails" THEN 1 ELSE 2)
               /\ exc' = Raised("OSError", "load")
    /\ UNCHANGED <<entry, output_format, invoked, passed_format, duration, converted,
                   temp_exists, removed, blocks, blockIdx, decoded, transcript,
                   inferCalls, outcome, result>>
    /\ UNCHANGED <<statVars, monoVars>>

\* ------------------------------------------------ the except clause
\* except Exception as e: logger.error(e); raise TranscriptionError(e)
transcribe_except_inference_only(e) ==
    IF e.stage = "inference"
    THEN [type |-> "TranscriptionError", cause |-> e.type, stage |-> e.stage]
    ELSE e

transcribe_except(e) ==
    [type |-> "TranscriptionError", cause |-> e.type, stage |-> e.stage]

\* What the caller of entry point ent observes when e is raised under it:
\* only TranscribeModel.transcribe has a try block.
Observed(ent, e) == IF ent = "transcribe" THEN transcribe_except(e) ELSE e

\* ------------------------------------------------------- dispatch
transcribe_dispatch_lm_first(use_vad, use_lm) ==
    IF use_lm THEN "transcribe_from_audio_path_with_lm"
    ELSE IF use_vad /\ use_lm THEN "transcribe_from_audio_path_with_lm_vad"
    ELSE IF use_vad THEN "transcribe_from_audio_path_split_on_speech"
    ELSE "transcribe_from_audio_path"

transcribe_dispatch(use_vad, use_lm) ==
    IF use_vad /\ use_lm THEN "transcribe_from_audio_path_with_lm_vad"
    ELSE IF use_vad THEN "transcribe_from_audio_path_split_on_speech"
    ELSE IF use_lm THEN "transcribe_from_audio_path_with_lm"
    ELSE "transcribe_from_audio_path"

transcribe_bytes_dispatch(use_vad, use_lm) ==
    IF use_vad /\ use_lm THEN "transcribe_bytes_with_lm_vad"
    ELSE IF use_vad THEN "transcribe_bytes_split_on_speech"
    ELSE IF use_lm THEN "transcribe_bytes_with_lm"
    ELSE "transcribe_bytes"

\* The pathways whose call is given output_format=output_format.
FormatPassed(p) ==
    p \in {"transcribe_from_audio_path_with_lm_vad",
           "transcribe_from_audio_path_split_on_speech",
           "transcribe_bytes_with_lm_vad",
           "transcribe_bytes_split_on_speech"}

\* The pathways whose result gets .lower() applied by the orchestrator.
Lowered(p) ==
    p \in {"transcribe_from_audio_path_with_lm", "transcribe_bytes_with_lm"}

\* One call of a VAD or LM pathway (code of tmh.transcribe_with_vad and
\* tmh.transcribe_with_lm): it raises (ok = FALSE) or returns; with output_format
\* passed it returns that format, otherwise the format `dflt` of its own default.
\* .lower() exists on the two string formats only.
ExternalPathway(ent, p, fmt, ok, dflt) ==
    LET kind == IF FormatPassed(p) THEN fmt ELSE dflt
        e == IF ~ok THEN Raised("RuntimeError", "inference")
             ELSE IF Lowered(p) /\ kind = "json" THEN Raised("AttributeError", "inference")
             ELSE NoExc
    IN /\ passed_format' = IF FormatPassed(p) THEN fmt ELSE "not_passed"
       /\ pc' = "ended"
       /\ IF e = NoExc
          THEN /\ outcome' = "returned"
               /\ result' = [kind |-> kind, text |-> <<>>]
               /\ exc' = exc
          ELSE /\ outcome' = "raised"
               /\ result' = result
               /\ exc' = Observed(ent, e)
       /\ UNCHANGED <<loads, duration, converted, temp_exists, removed, blocks,
                      blockIdx, decoded, transcript, inferCalls>>

\* --------------------------------------- transcribe_from_audio_path
\* librosa.stream(audio_path, block_length=30, frame_length=sample_rate,
\* hop_length=sample_rate) over a file of d seconds: consecutive blocks of
\* block_length one-second frames, the last one shorter when d is no multiple.
RECURSIVE Stream(_)
Stream(d) ==
    IF d <= 0 THEN <<>>
    ELSE IF d <= block_length THEN <<d>>
    ELSE <<block_length>> \o Stream(d - block_length)

\* Lines 302-329, called from entry point ent: ensure_wav (norm is its outcome),
\* the model resolution (has_model: model and processor were passed; model_id: the
\* model_id argument; gm_ok and load_ok: whether get_model and from_pretrained
\* return), transcript = "" and the opening of the stream over d seconds of audio.
\* With check_language the language comes from classify_language first; get_model
\* is called on it either way.
tfap_begin(ent, has_model, model_id, norm, gm_ok, load_ok, d) ==
    LET e == IF norm = "raise" THEN Raised("ConversionError", "normalize")
             ELSE IF ~has_model /\ ~Truthy(model_id) /\ ~gm_ok
                  THEN Raised("get_model error", "resolution")
             ELSE IF ~has_model /\ ~load_ok THEN Raised("OSError", "load")
             ELSE NoExc
    IN /\ duration' = d
       /\ converted' = (norm = "converted")
       /\ temp_exists' = (norm = "converted")
       /\ loads' = IF norm # "raise" /\ ~has_model /\ (Truthy(model_id) \/ gm_ok)
                   THEN loads + (IF load_ok THEN 2 ELSE 1)
                   ELSE loads
       /\ passed_format' = "not_passed"
       /\ IF e = NoExc
          THEN /\ pc' = "streaming"
               /\ blocks' = Stream(d)
               /\ transcript' = <<>>
               /\ UNCHANGED <<outcome, exc>>
          ELSE /\ pc' = "ended"
               /\ outcome' = "raised"
               /\ exc' = Observed(ent, e)
               /\ UNCHANGED <<blocks, transcript>>
       /\ UNCHANGED <<removed, blockIdx, decoded, inferCalls, result>>

\* transcript += transcription.lower()
AppendTranscriptSpaced(t, transcription) ==
    IF t = <<>> THEN Lower(transcription) ELSE t \o <<" ">> \o Lower(transcription)

AppendTranscript(t, transcription) == t \o Lower(transcription)

\* One iteration of `for speech in stream` (lines 331-341): one model call on the
\* next block; it raises (ok = FALSE) or processor.decode returns transcription.
StreamBlockContinue(ok, transcription) ==
    /\ pc = "streaming"
    /\ blockIdx < Len(blocks)
    /\ inferCalls' = inferCalls + 1
    /\ blockIdx' = blockIdx + 1
    /\ IF ok
       THEN /\ decoded' = Append(decoded, transcription)
            /\ transcript' = AppendTranscript(transcript, transcription)
       ELSE UNCHANGED <<decoded, transcript>>
    /\ UNCHANGED <<pc, outcome, exc>>
    /\ UNCHANGED <<self, model_id_arg, loads, entry, output_format, invoked,
                   passed_format, duration, converted, temp_exists, removed, blocks,
                   result>>
    /\ UNCHANGED <<statVars, monoVars>>

StreamBlock(ok, transcription) ==
    /\ pc = "streaming"
    /\ blockIdx < Len(blocks)
    /\ inferCalls' = inferCalls + 1
    /\ blockIdx' = blockIdx + 1
    /\ IF ok
       THEN /\ decoded' = Append(decoded, transcription)
            /\ transcript' = AppendTranscript(transcript, transcription)
            /\ UNCHANGED <<pc, outcome, exc>>
       ELSE /\ pc' = "ended"
            /\ outcome' = "raised"
            /\ exc' = Observed(entry, Raised("RuntimeError", "inference"))
            /\ UNCHANGED <<decoded, transcript>>
    /\ UNCHANGED <<self, model_id_arg, loads, entry, output_format, invoked,
                   passed_format, duration, converted, temp_exists, removed, blocks,
                   result>>
    /\ UNCHANGED <<statVars, monoVars>>

\* The stream is exhausted (lines 344-347): if converted: os.remove(audio_path);
\* return transcript.
StreamEnd ==
    /\ pc = "streaming"
    /\ blockIdx = Len(blocks)
    /\ IF converted
       THEN /\ temp_exists' = FALSE
            /\ removed' = removed + 1
       ELSE UNCHANGED <<temp_exists, removed>>
    /\ pc' = "ended"
    /\ outcome' = "returned"
    /\ result' = [kind |-> "str", text |-> transcript]
    /\ UNCHANGED <<self, model_id_arg, loads, entry, output_format, invoked,
                   passed_format, duration, converted, blocks, blockIdx, decoded,
                   transcript, inferCalls, exc>>
    /\ UNCHANGED <<statVars, monoVars>>

\* A direct call of the module-level function transcribe_from_audio_path.
transcribe_from_audio_path(has_model, model_id, norm, gm_ok, load_ok, d) ==
    /\ pc = "new"
    /\ entry' = "transcribe_from_audio_path"
    /\ invoked' = Append(invoked, "transcribe_from_audio_path")
    /\ tfap_begin("transcribe_from_audio_path", has_model, model_id, norm, gm_ok,
                  load_ok, d)
    /\ UNCHANGED <<self, model_id_arg, output_format>>
    /\ UNCHANGED <<statVars, monoVars>>

\* ------------------------------------------ TranscribeModel.transcribe
\* Lines 128-159. The plain branch passes self.model and self.processor, so
\* transcribe_from_audio_path resolves and loads nothing.
transcribe(fmt, ok, dflt, norm, d) ==
    /\ pc = "ready"
    /\ entry' = "transcribe"
    /\ output_format' = fmt
    /\ LET p == transcribe_dispatch(self.use_vad, self.use_lm)
       IN /\ invoked' = Append(invoked, p)
          /\ IF p = "transcribe_from_audio_path"
             THEN tfap_begin("transcribe", TRUE, "None", norm, TRUE, TRUE, d)
             ELSE ExternalPathway("transcribe", p, fmt, ok, dflt)
    /\ UNCHANGED <<self, model_id_arg>>
    /\ UNCHANGED <<statVars, monoVars>>

\* ------------------------------------------------- transcribe_bytes
\* The module-level transcribe_bytes (lines 350-380) with model and processor
\* passed: the buffer is decoded (dec_ok), one model call is made (ok) and the
\* lower-cased transcription is returned.
transcribe_bytes(ent, dec_ok, ok, transcription) ==
    /\ passed_format' = "not_passed"
    /\ pc' = "ended"
    /\ inferCalls' = IF dec_ok THEN inferCalls + 1 ELSE inferCalls
    /\ IF dec_ok /\ ok
       THEN /\ decoded' = Append(decoded, transcription)
            /\ transcript' = AppendTranscript(<<>>, transcription)
            /\ outcome' = "returned"
            /\ result' = [kind |-> "str", text |-> transcript']
            /\ exc' = exc
       ELSE /\ outcome' = "raised"
            /\ exc' = Observed(ent, IF dec_ok THEN Raised("RuntimeError", "inference")
                                    ELSE Raised("RuntimeError", "decode"))
            /\ UNCHANGED <<decoded, transcript, result>>
    /\ UNCHANGED <<loads, duration, converted, temp_exists, removed, blocks, blockIdx>>

\* TranscribeModel.transcribe_bytes (lines 164-193): the same dispatch, no try.
TranscribeModel_transcribe_bytes(fmt, ok, dflt, dec_ok, transcription) ==
    /\ pc = "ready"
    /\ entry' = "transcribe_bytes"
    /\ output_format' = fmt
    /\ LET p == transcribe_bytes_dispatch(self.use_vad, self.use_lm)
       IN /\ invoked' = Append(invoked, p)
          /\ IF p = "transcribe_bytes"
             THEN transcribe_bytes("transcribe_bytes", dec_ok, ok, transcription)
             ELSE ExternalPathway("transcribe_bytes", p, fmt, ok, dflt)
    /\ UNCHANGED <<self, model_id_arg>>
    /\ UNCHANGED <<statVars, monoVars>>

\* ------------------------------------------------- classify_emotion
\* Lines 217-235: ensure_wav, two from_pretrained calls, librosa.load, one model
\* call, then the removal of the converted file. fail names the call that raises.
EmotionFailPoints == {"none", "normalize", "load", "decode", "inference"}

classify_emotion(norm_converted, fail) ==
    /\ pc = "new"
    /\ entry' = "classify_emotion"
    /\ pc' = "ended"
    /\ converted' = (fail # "normalize" /\ norm_converted)
    /\ loads' = IF fail = "normalize" THEN loads
                ELSE IF fail = "load" THEN loads + 1
                ELSE loads + 2
    /\ inferCalls' = IF fail \in {"none", "inference"} THEN inferCalls + 1 ELSE inferCalls
    /\ IF fail = "none"
       THEN /\ temp_exists' = FALSE
            /\ removed' = IF converted' THEN removed + 1 ELSE removed
            /\ outcome' = "returned"
            /\ result' = [kind |-> "labels", text |-> <<>>]
            /\ exc' = exc
       ELSE /\ temp_exists' = converted'
            /\ removed' = removed
            /\ outcome' = "raised"
            /\ result' = result
            /\ exc' = CASE fail = "normalize" -> Raised("ConversionError", "normalize")
                        [] fail = "load" -> Raised("OSError", "load")
                        [] fail = "decode" -> Raised("RuntimeError", "decode")
                        [] OTHER -> Raised("RuntimeError", "inference")
    /\ UNCHANGED <<self, model_id_arg, output_format, invoked, passed_format, duration,
                   blocks, blockIdx, decoded, transcript>>
    /\ UNCHANGED <<statVars, monoVars>>

\* ------------------------------------------------ the orchestrator
StatIdle ==
    /\ time_stamps = <<>>
    /\ type = "char"
    /\ stats = [done |-> FALSE, averages |-> <<>>, stds |-> <<>>, variances |-> <<>>]

MonoIdle ==
    /\ speech = [shape |-> <<0>>, data |-> <<>>]
    /\ site = "none"
    /\ mono = [raised |-> "none", data |-> <<>>]

OrchIdle ==
    /\ pc = "new"
    /\ self = NoSelf
    /\ model_id_arg = "None"
    /\ loads = 0
    /\ entry = "none"
    /\ output_format = "json"
    /\ invoked = <<>>
    /\ passed_format = "not_passed"
    /\ duration = 0
    /\ converted = FALSE
    /\ temp_exists = FALSE
    /\ removed = 0
    /\ blocks = <<>>
    /\ blockIdx = 0
    /\ decoded = <<>>
    /\ transcript = <<>>
    /\ inferCalls = 0
    /\ outcome = "none"
    /\ result = NoResult
    /\ exc = NoExc

Init == OrchIdle /\ StatIdle /\ MonoIdle

Normalizations == {"same", "converted", "raise"}
LoadOutcomes == {"ok", "processor_fails", "model_fails"}

\* Each guard is repeated ahead of its quantifier so that the inputs are only
\* enumerated in the states where the operation can be called.
Next ==
    \/ /\ pc = "new"
       /\ \E use_vad \in BOOLEAN, use_lm \in BOOLEAN, language \in Languages,
             model_id \in ModelIds, gm_ok \in BOOLEAN, load \in LoadOutcomes :
             Construct(use_vad, use_lm, language, model_id, gm_ok, load)
    \/ /\ pc = "ready"
       /\ \E fmt \in Formats, ok \in BOOLEAN, dflt \in Formats,
             norm \in Normalizations, d \in 0..MaxDuration :
             transcribe(fmt, ok, dflt, norm, d)
    \/ /\ pc = "ready"
       /\ \E fmt \in Formats, ok \in BOOLEAN, dflt \in Formats, dec_ok \in BOOLEAN,
             transcription \in Transcriptions :
             TranscribeModel_transcribe_bytes(fmt, ok, dflt, dec_ok, transcription)
    \/ /\ pc = "new"
       /\ \E has_model \in BOOLEAN, model_id \in ModelIds, norm \in Normalizations,
             gm_ok \in BOOLEAN, load_ok \in BOOLEAN, d \in 0..MaxDuration :
             transcribe_from_audio_path(has_model, model_id, norm, gm_ok, load_ok, d)
    \/ /\ pc = "streaming"
       /\ \E ok \in BOOLEAN, transcription \in Transcriptions :
             StreamBlock(ok, transcription)
    \/ StreamEnd
    \/ /\ pc = "new"
       /\ \E norm_converted \in BOOLEAN, fail \in EmotionFailPoints :
             classify_emotion(norm_converted, fail)

Spec == Init /\ [][Next]_vars

\* ------------------------------------- get_speech_rate_variability
\* Exact arithmetic: a time is an integer number of hundredths of a second (what
\* round(x, 2) yields), a quotient is the pair of its numerator and denominator,
\* and a square root is kept as its radicand.
Rat(n, d) == [num |-> n, den |-> d]

\* round(offset * base, 2) with base = downsample / sample_rate, in hundredths,
\* ties to even.
round2(offset) ==
    LET q == offset * downsample * 100
        f == q \div sample_rate
        r == q % sample_rate
    IN IF 2 * r < sample_rate THEN f
       ELSE IF 2 * r > sample_rate THEN f + 1
       ELSE IF f % 2 = 0 THEN f ELSE f + 1

RECURSIVE sum(_)
sum(data) == IF data = <<>> THEN 0 ELSE Head(data) + sum(Tail(data))

\* sum((x - mean) ** 2 for x in data) with mean = s / n, times n * n.
RECURSIVE sum_sq_dev(_, _, _)
sum_sq_dev(data, s, n) ==
    IF data = <<>> THEN 0
    ELSE (n * Head(data) - s) * (n * Head(data) - s) + sum_sq_dev(Tail(data), s, n)

calculate_variance_sample(data) ==
    LET n == Len(data)
    IN Rat(sum_sq_dev(data, sum(data), n), n * n * (n - 1))

\* calculate_variance (lines 257-264): sum(deviations) / n.
calculate_variance(data) ==
    LET n == Len(data)
    IN Rat(sum_sq_dev(data, sum(data), n), n * n * n)

\* numpy.std with its default ddof=0: sqrt(mean(abs(x - x.mean()) ** 2)).
np_std(data) ==
    LET n == Len(data)
    IN [radicand |-> Rat(sum_sq_dev(data, sum(data), n), n * n * n)]

\* The first loop (lines 271-281): the durations of the tokens, by key, in order.
RECURSIVE token_durations(_, _, _)
token_durations(ts, typ, acc) ==
    IF ts = <<>> THEN acc
    ELSE LET time_stamp == Head(ts)
             start_time == round2(time_stamp.start_offset)
             end_time == round2(time_stamp.end_offset)
             char == time_stamp[typ]
             d == end_time - start_time
             next == IF char \in DOMAIN acc
                     THEN [acc EXCEPT ![char] = Append(@, d)]
                     ELSE [k \in DOMAIN acc \cup {char} |->
                              IF k = char THEN <<d>> ELSE acc[k]]
         IN token_durations(Tail(ts), typ, next)

NoStats == [done |-> FALSE, averages |-> <<>>, stds |-> <<>>, variances |-> <<>>]

\* Lines 267-298.
get_speech_rate_variability ==
    /\ ~stats.done
    /\ LET groups == token_durations(time_stamps, type, <<>>)
       IN stats' = [done |-> TRUE,
                    averages |-> [k \in DOMAIN groups |->
                                     Rat(sum(groups[k]), Len(groups[k]))],
                    stds |-> [k \in DOMAIN groups |-> np_std(groups[k])],
                    variances |-> [k \in DOMAIN groups |->
                                      calculate_variance(groups[k])]]
    /\ UNCHANGED <<time_stamps, type>>
    /\ UNCHANGED <<orchVars, monoVars>>

\* What the decoder reports: offsets in model frames, the token's character and
\* the word it belongs to.
OffsetPairs == {<<0, 1>>, <<1, 3>>, <<2, 2>>}
TokenTimestamps ==
    [start_offset : {p[1] : p \in OffsetPairs}, end_offset : {p[2] : p \in OffsetPairs},
     char : {"a", "b"}, word : {"x"}]

StatsInit ==
    /\ OrchIdle
    /\ MonoIdle
    /\ time_stamps \in UNION {[1..n -> TokenTimestamps] : n \in 0..MaxTokens}
    /\ type \in {"char", "word"}
    /\ stats = NoStats

StatsNext == get_speech_rate_variability

StatsSpec == StatsInit /\ [][StatsNext]_vars

\* ------------------------------------------------ the mono downmix
\* A decoded signal: shape (n,) with data a sequence of samples, or shape (n, c)
\* with data a sequence of n rows of c samples, one per channel.
Samples == {-1, 2}
Signals ==
    UNION {[shape : {<<n>>}, data : [1..n -> Samples]] : n \in 0..MaxFrames}
    \cup UNION {[shape : {<<n, c>>}, data : [1..n -> [1..c -> Samples]]] :
                   n \in 0..MaxFrames, c \in 1..MaxChannels}

NoMono == [raised |-> "none", data |-> <<>>]

downmix_mean(s) ==
    IF Len(s.shape) > 1
    THEN IF s.shape[2] < 2
         THEN [raised |-> "IndexError", data |-> <<>>]
         ELSE [raised |-> "none",
               data |-> [i \in 1..s.shape[1] |-> (s.data[i][1] + s.data[i][2]) \div 2]]
    ELSE [raised |-> "none", data |-> s.data]

\* if len(speech.shape) > 1: speech = speech[:, 0] + speech[:, 1]
downmix(s) ==
    IF Len(s.shape) > 1
    THEN IF s.shape[2] < 2
         THEN [raised |-> "IndexError", data |-> <<>>]
         ELSE [raised |-> "none",
               data |-> [i \in 1..s.shape[1] |-> s.data[i][1] + s.data[i][2]]]
    ELSE [raised |-> "none", data |-> s.data]

\* Lines 332-333, on a block of the stream.
StreamDownmix ==
    /\ site = "none"
    /\ site' = "stream"
    /\ mono' = downmix(speech)
    /\ UNCHANGED speech
    /\ UNCHANGED <<orchVars, statVars>>

\* Lines 368-369, on the decoded byte buffer.
BytesDownmix ==
    /\ site = "none"
    /\ site' = "bytes"
    /\ mono' = downmix(speech)
    /\ UNCHANGED speech
    /\ UNCHANGED <<orchVars, statVars>>

MonoInit ==
    /\ OrchIdle
    /\ StatIdle
    /\ speech \in Signals
    /\ site = "none"
    /\ mono = NoMono

MonoNext == StreamDownmix \/ BytesDownmix

MonoSpec == MonoInit /\ [][MonoNext]_vars

\* ===================================================== the claims
\* The dispatch table of the specification, by cases on the two flags.
PathwayTable(ent, use_vad, use_lm) ==
    CASE use_vad /\ use_lm ->
           IF ent = "transcribe" THEN "transcribe_from_audio_path_with_lm_vad"
           ELSE "transcribe_bytes_with_lm_vad"
      [] use_vad /\ ~use_lm ->
           IF ent = "transcribe" THEN "transcribe_from_audio_path_split_on_speech"
           ELSE "transcribe_bytes_split_on_speech"
      [] ~use_vad /\ use_lm ->
           IF ent = "transcribe" THEN "transcribe_from_audio_path_with_lm"
           ELSE "transcribe_bytes_with_lm"
      [] OTHER ->
           IF ent = "transcribe" THEN "transcribe_from_audio_path"
           ELSE "transcribe_bytes"

MethodEntries == {"transcribe", "transcribe_bytes"}

\* A call on the plain file pathway: transcribe with both flags off, or
\* transcribe_from_audio_path called directly.
PlainFileCall ==
    \/ entry = "transcribe_from_audio_path"
    \/ entry = "transcribe" /\ ~self.use_vad /\ ~self.use_lm

\* C1: a call of transcribe or transcribe_bytes invokes exactly one pathway, the
\* one the precedence table gives for (use_vad, use_lm), and no other.
C1_DispatchPrecedence ==
    entry \in MethodEntries =>
        invoked = <<PathwayTable(entry, self.use_vad, self.use_lm)>>

C1_Witness ==
    /\ pc = "ended"
    /\ entry = "transcribe"
    /\ self.use_vad /\ self.use_lm
    /\ invoked = <<"transcribe_from_audio_path_with_lm_vad">>

\* C2 as stated: use_lm with a language other than Swedish never yields an
\* instance, whatever model_id is: construction fails in model resolution with
\* nothing loaded and no inference made.
C2_AlwaysFails ==
    (self.use_lm /\ self.language \in Languages \ {"Swedish"}) =>
        /\ pc = "init_failed"
        /\ exc.stage = "resolution"
        /\ loads = 0
        /\ inferCalls = 0

\* C2 amended: use_lm with a language other than Swedish and no model_id (None or
\* the empty string) fails in model resolution with ValueError, with nothing
\* loaded, no pathway invoked and no inference made.
C2_FailsWithoutModelId ==
    (self.use_lm /\ self.language \in Languages \ {"Swedish"} /\ ~Truthy(model_id_arg)) =>
        /\ pc = "init_failed"
        /\ exc = Raised("ValueError", "resolution")
        /\ loads = 0
        /\ self.processor = "none"
        /\ invoked = <<>>
        /\ inferCalls = 0

C2_Witness ==
    /\ pc = "init_failed"
    /\ self.use_lm
    /\ self.language = "Klingon"
    /\ model_id_arg = ""
    /\ exc.type = "ValueError"

\* C3: under transcribe and under transcribe_bytes, an exception raised during
\* model invocation reaches the caller as a TranscriptionError wrapping it.
C3_InferenceErrorsWrapped ==
    (entry \in MethodEntries /\ outcome = "raised" /\ exc.stage = "inference") =>
        /\ exc.type = "TranscriptionError"
        /\ exc.cause # "none"

\* C4 as stated: a normalization error under transcribe on the plain path reaches
\* the caller as the original exception.
C4_NormalizationRaw ==
    (entry = "transcribe" /\ ~self.use_vad /\ ~self.use_lm
        /\ outcome = "raised" /\ exc.stage = "normalize") =>
        exc.type = "ConversionError"

\* C4 amended: a normalization error under transcribe on the plain path reaches
\* the caller as a TranscriptionError wrapping it; it reaches the caller as the
\* original exception only when transcribe_from_audio_path is called directly.
C4_NormalizationWrapped ==
    (PlainFileCall /\ outcome = "raised" /\ exc.stage = "normalize") =>
        IF entry = "transcribe"
        THEN exc.type = "TranscriptionError" /\ exc.cause = "ConversionError"
        ELSE exc.type = "ConversionError" /\ exc.cause = "none"

C4_Witness ==
    /\ entry = "transcribe"
    /\ ~self.use_vad /\ ~self.use_lm
    /\ outcome = "raised"
    /\ exc.stage = "normalize"
    /\ inferCalls = 0

\* C5: what transcribe returns has the format its output_format argument asks
\* for, in each of the four branches, the argument having been passed on.
C5_RequestedFormat ==
    (entry = "transcribe" /\ outcome = "returned") =>
        /\ passed_format = output_format
        /\ result.kind = output_format

RECURSIVE Flatten(_)
Flatten(ss) == IF ss = <<>> THEN <<>> ELSE Head(ss) \o Flatten(Tail(ss))

RECURSIVE SumSeq(_)
SumSeq(ns) == IF ns = <<>> THEN 0 ELSE Head(ns) + SumSeq(Tail(ns))

\* C6: on the plain file pathway the audio is cut into consecutive 30-second
\* blocks, ceil(duration/30) of them, one inference call is made per block, and
\* the value returned is the transcriptions of the blocks, in block order, joined
\* without separator and lower-cased (empty for no block).
C6_StreamedTranscript ==
    (PlainFileCall /\ outcome = "returned") =>
        /\ Len(blocks) = (duration + block_length - 1) \div block_length
        /\ SumSeq(blocks) = duration
        /\ \A i \in 1..Len(blocks) :
              /\ blocks[i] >= 1
              /\ blocks[i] <= block_length
              /\ i < Len(blocks) => blocks[i] = block_length
        /\ inferCalls = Len(blocks)
        /\ Len(decoded) = Len(blocks)
        /\ result.kind = "str"
        /\ Len(result.text) = Len(Flatten(decoded))
        /\ \A i \in 1..Len(result.text) :
              result.text[i] = LowerChar(Flatten(decoded)[i])

C6_Witness ==
    /\ entry = "transcribe"
    /\ outcome = "returned"
    /\ duration = 2 * block_length + 1
    /\ Len(blocks) = 3
    /\ decoded = <<<<"H", "e", "J">>, <<>>, <<"d", "X">>>>
    /\ result.text = <<"h", "e", "j", "d", "x">>

\* C9: on the plain file pathway, once the inference call of a block has failed
\* the call is over: no later block is given to the model, the caller gets an
\* error and no transcript, whatever was decoded before.
C9_NoPartialResult ==
    (PlainFileCall /\ inferCalls > Len(decoded)) =>
        /\ pc = "ended"
        /\ outcome = "raised"
        /\ exc.stage = "inference"
        /\ result = NoResult
        /\ inferCalls = Len(decoded) + 1
        /\ inferCalls = blockIdx

C9_Witness ==
    /\ entry = "transcribe"
    /\ outcome = "raised"
    /\ exc.stage = "inference"
    /\ Len(blocks) = 3
    /\ decoded = <<<<"H", "e", "J">>>>
    /\ inferCalls = 2
    /\ result = NoResult

\* C10: when transcribe_from_audio_path or classify_emotion ends, by a return or
\* by an error of a model call, a temporary file that normalization wrote is
\* gone; without a conversion they delete nothing.
C10_TempFileRemoved ==
    (/\ pc = "ended"
     /\ PlainFileCall \/ entry = "classify_emotion"
     /\ outcome = "returned" \/ exc.stage = "inference") =>
        /\ converted => ~temp_exists
        /\ ~converted => removed = 0

\* The tokens of key k, and sums over a set of token indices.
GroupOf(k) == {i \in 1..Len(time_stamps) : time_stamps[i][type] = k}

\* offset * 320 / 16000 seconds is 2 * offset hundredths of a second.
DurationOf(i) == 2 * time_stamps[i].end_offset - 2 * time_stamps[i].start_offset

RECURSIVE SumDur(_)
SumDur(I) ==
    IF I = {} THEN 0
    ELSE LET i == CHOOSE j \in I : TRUE IN DurationOf(i) + SumDur(I \ {i})

RECURSIVE SumDurSq(_)
SumDurSq(I) ==
    IF I = {} THEN 0
    ELSE LET i == CHOOSE j \in I : TRUE
         IN DurationOf(i) * DurationOf(i) + SumDurSq(I \ {i})

\* The quotient r equals n / d.
RatEq(r, n, d) == r.den > 0 /\ d > 0 /\ r.num * d = n * r.den

\* C8: the three maps have the distinct keys as their key set; for each key they
\* hold the mean, the population standard deviation and the population variance
\* (E[x^2] - E[x]^2, divisor n) of the durations of its tokens, the variance and
\* the standard deviation of a one-token group being 0.
C8_PopulationStatistics ==
    stats.done =>
        LET keys == {time_stamps[i][type] : i \in 1..Len(time_stamps)}
        IN /\ DOMAIN stats.averages = keys
           /\ DOMAIN stats.stds = keys
           /\ DOMAIN stats.variances = keys
           /\ \A k \in keys :
                 LET n == Cardinality(GroupOf(k))
                     s == SumDur(GroupOf(k))
                     q == SumDurSq(GroupOf(k))
                 IN /\ RatEq(stats.averages[k], s, n)
                    /\ RatEq(stats.variances[k], n * q - s * s, n * n)
                    /\ RatEq(stats.stds[k].radicand, n * q - s * s, n * n)
                    /\ n = 1 => /\ stats.variances[k].num = 0
                                /\ stats.stds[k].radicand.num = 0

C8_Witness ==
    /\ stats.done
    /\ Len(time_stamps) = 3
    /\ type = "char"
    /\ DOMAIN stats.variances = {"a", "b"}
    /\ Cardinality(GroupOf("a")) = 1
    /\ stats.variances["a"].num = 0
    /\ stats.variances["b"].num > 0

====
